---- MODULE Spec2Model ----
(***************************************************************************)
(* A model of the keep-alive component, src/src/core/components/          *)
(* keep-alive.js: the cache of component instances, its key derivation,   *)
(* its LRU eviction bounded by `max` and its include/exclude filters.      *)
(*                                                                         *)
(* JavaScript values are tagged records.  A JavaScript string is the      *)
(* sequence of its characters, so that split(',') and string              *)
(* concatenation are computed, not assumed.                                *)
(***************************************************************************)
EXTENDS Integers, Sequences, FiniteSets, TLC

(***************************************************************************)
(* JavaScript values                                                       *)
(***************************************************************************)
Undefined == [kind |-> "Undefined"]

Null == [kind |-> "Null"]

NaN == [kind |-> "NaN"]

Str(s) == [kind |-> "String", chars |-> s]

Num(n) == [kind |-> "Number", value |-> n]

Arr(items) == [kind |-> "Array", items |-> items]

\* A regular expression without the g and y flags: a literal, anchored at
\* the start of the input (/^lit/) or not (/lit/).
RegExp(anchored, lit) == [kind |-> "RegExp", anchored |-> anchored, lit |-> lit]

\* ToBoolean: what `x && ...` and `x || ...` test.
Truthy(v) ==
  CASE v.kind = "Undefined" -> FALSE
    [] v.kind = "Null" -> FALSE
    [] v.kind = "NaN" -> FALSE
    [] v.kind = "String" -> v.chars # <<>>
    [] v.kind = "Number" -> v.value # 0
    [] OTHER -> TRUE

isRegExp(v) == v.kind = "RegExp"

Digits == <<"0", "1", "2", "3", "4", "5", "6", "7", "8", "9">>

IsDigit(c) == \E d \in 1..10 : Digits[d] = c

DigitValue(c) == (CHOOSE d \in 1..10 : Digits[d] = c) - 1

RECURSIVE NumberToString(_)
\* String(n) for an integer n >= 0: its decimal digits.
NumberToString(n) ==
  IF n < 10 THEN <<Digits[n + 1]>>
  ELSE NumberToString(n \div 10) \o <<Digits[(n % 10) + 1]>>

RECURSIVE ParseDigits(_, _)
ParseDigits(s, acc) ==
  IF s = <<>> \/ ~IsDigit(Head(s)) THEN acc
  ELSE ParseDigits(Tail(s), 10 * acc + DigitValue(Head(s)))

\* parseInt(v) for a string or a number >= 0: the leading decimal digits,
\* NaN when there are none.
parseInt(v) ==
  LET s == IF v.kind = "Number" THEN NumberToString(v.value)
           ELSE IF v.kind = "String" THEN v.chars
           ELSE <<>>
  IN IF s = <<>> \/ ~IsDigit(Head(s)) THEN NaN ELSE Num(ParseDigits(s, 0))

\* a > b on a number a and the result b of parseInt: false against NaN.
GreaterThan(a, b) == b.kind = "Number" /\ a > b.value

RECURSIVE split(_, _)
\* s.split(sep) for a one-character separator: the parts between separators.
split(s, sep) ==
  IF \A i \in 1..Len(s) : s[i] # sep THEN <<s>>
  ELSE LET i == CHOOSE j \in 1..Len(s) :
                  s[j] = sep /\ \A h \in 1..(j - 1) : s[h] # sep
       IN <<SubSeq(s, 1, i - 1)>> \o split(SubSeq(s, i + 1, Len(s)), sep)

\* arr.indexOf(x) > -1, with strict equality of the elements.
includes(arr, x) == \E i \in 1..Len(arr) : arr[i] = x

\* RegExp.prototype.test on a string, for the regular expressions above.
test(re, s) ==
  IF re.anchored
  THEN Len(re.lit) <= Len(s) /\ SubSeq(s, 1, Len(re.lit)) = re.lit
  ELSE \E i \in 0..(Len(s) - Len(re.lit)) :
         SubSeq(s, i + 1, i + Len(re.lit)) = re.lit

\* remove(arr, item) of shared/util: drops the first occurrence, if any.
remove(arr, item) ==
  IF ~includes(arr, item) THEN arr
  ELSE LET i == CHOOSE j \in 1..Len(arr) :
                  arr[j] = item /\ \A h \in 1..(j - 1) : arr[h] # item
       IN SubSeq(arr, 1, i - 1) \o SubSeq(arr, i + 1, Len(arr))

(***************************************************************************)
(* keep-alive.js: the helpers                                              *)
(***************************************************************************)
\* opts && (opts.Ctor.options.name || opts.tag)
getComponentName(opts) ==
  IF ~Truthy(opts) THEN opts
  ELSE IF Truthy(opts.Ctor.options.name) THEN opts.Ctor.options.name
  ELSE opts.tag

\* A matcher that looks the name up in the string itself, not in its parts.
matchesSubstring(pattern, name) ==
  IF pattern.kind = "Array" THEN includes(pattern.items, name)
  ELSE IF pattern.kind = "String" THEN test(RegExp(FALSE, name), pattern.chars)
  ELSE IF isRegExp(pattern) THEN test(pattern, name)
  ELSE FALSE

\* matches(pattern, name), name a string (its characters).
matches(pattern, name) ==
  IF pattern.kind = "Array" THEN includes(pattern.items, name)
  ELSE IF pattern.kind = "String" THEN includes(split(pattern.chars, ","), name)
  ELSE IF isRegExp(pattern) THEN test(pattern, name)
  ELSE FALSE

\* The key without the tag: the constructor id alone.
getCacheKeyCidOnly(vnode) ==
  IF vnode.key.kind \in {"Undefined", "Null"}
  THEN NumberToString(vnode.componentOptions.Ctor.cid)
  ELSE vnode.key.chars

\* The cache key of render: vnode.key when it is not null or undefined,
\* otherwise Ctor.cid + (componentOptions.tag ? `::${tag}` : '').
getCacheKey(vnode) ==
  IF vnode.key.kind \in {"Undefined", "Null"}
  THEN NumberToString(vnode.componentOptions.Ctor.cid)
         \o (IF Truthy(vnode.componentOptions.tag)
             THEN <<":", ":">> \o vnode.componentOptions.tag.chars
             ELSE <<>>)
  ELSE vnode.key.chars

(***************************************************************************)
(* The children the default slot can deliver to render                    *)
(***************************************************************************)
MaxInstances == 3

VueComponent == <<"v", "u", "e", "-", "c", "o", "m", "p", "o", "n", "e", "n", "t", "-">>

\* The vnode of a component: its Ctor (cid, options.name), the tag it is
\* registered under, its explicit key.  vnode.tag is the one the host gives
\* a component vnode, `vue-component-${cid}${name ? `-${name}` : ''}`.
ComponentVNode(cid, ctorName, tag, key) ==
  LET opts == [kind |-> "Options",
               Ctor |-> [cid |-> cid, options |-> [name |-> ctorName]],
               tag |-> tag]
      name == getComponentName(opts)
  IN [kind |-> "VNode",
      tag |-> Str(VueComponent \o NumberToString(cid)
                    \o (IF Truthy(name) THEN <<"-">> \o name.chars ELSE <<>>)),
      key |-> key,
      componentOptions |-> opts,
      componentInstance |-> Undefined,
      keepAlive |-> FALSE]

\* A child that is no component (slot[0] when there is no component child).
ElementVNode ==
  [kind |-> "VNode", tag |-> Str(<<"d", "i", "v">>), key |-> Undefined,
   componentOptions |-> Undefined, componentInstance |-> Undefined,
   keepAlive |-> FALSE]

\* Component A under two explicit keys, the tag-named component B under
\* the first of these keys, an anonymous component and component C.
ComponentChildren ==
  { ComponentVNode(1, Str(<<"A">>), Str(<<"a">>), Str(<<"k", "1">>)),
    ComponentVNode(1, Str(<<"A">>), Str(<<"a">>), Str(<<"k", "2">>)),
    ComponentVNode(2, Undefined, Str(<<"B">>), Str(<<"k", "1">>)),
    ComponentVNode(2, Undefined, Undefined, Undefined),
    ComponentVNode(3, Str(<<"C">>), Str(<<"c">>), Undefined) }

Children == ComponentChildren \cup {ElementVNode}

CacheKeys == { getCacheKey(c) : c \in ComponentChildren }

\* The values the include and exclude props take: unset, a list of names,
\* a comma-delimited string of names.
IncludeValues == { Undefined, Arr(<<<<"A">>, <<"C">>>>) }

ExcludeValues == { Undefined, Str(<<"B", ",", "C">>) }

\* The values the max prop takes: unset, a number, a numeric string.
MaxValues == { Undefined, Num(1), Str(<<"2">>) }

Instance(i) == [kind |-> "Component", uid |-> i]

(***************************************************************************)
(* State                                                                   *)
(***************************************************************************)
VARIABLES
  cache,         \* this.cache: key -> undefined (absent), null or an entry
  keys,          \* this.keys
  vnodeToCache,  \* this.vnodeToCache
  keyToCache,    \* this.keyToCache
  _vnode,        \* this._vnode: what the last render pass returned
  include,       \* the props
  exclude,
  max,
  phase,         \* "created", "mounted" (the watchers exist) or "destroyed"
  nextInstance,  \* the uid of the next component instance the host creates
  destroyCount,  \* per instance, the $destroy() calls issued so far
  lastUse,       \* history: per key, the rank of its last admit or hit
  lastOp,        \* history: what the last step did to the store, if anything
  pin,           \* the arguments and the result of a pure function
  pout

vars == <<cache, keys, vnodeToCache, keyToCache, _vnode, include, exclude,
          max, phase, nextInstance, destroyCount, lastUse, lastOp, pin, pout>>

pureVars == <<pin, pout>>

LiveKeys == { k \in CacheKeys : Truthy(cache[k]) }

\* lastOp of a step that left the store and the pending vnode alone.
NoOp == [op |-> "none", key |-> <<>>, inst |-> Undefined, removed |-> {},
         afterAdmit |-> Undefined]

(***************************************************************************)
(* History: the recency of the keys.  lastUse[k] is 0 for a key that is    *)
(* not in the store, and otherwise the rank of the time of its last admit  *)
(* or hit among the keys in the store (1 = longest ago).  Ranks, not       *)
(* times, keep the history finite; they order the keys as the times do.    *)
(***************************************************************************)
Rank(lu) ==
  [k \in CacheKeys |->
     IF lu[k] = 0 THEN 0
     ELSE Cardinality({ j \in CacheKeys : lu[j] # 0 /\ lu[j] <= lu[k] })]

Touch(lu, k) == Rank([lu EXCEPT ![k] = Cardinality(CacheKeys) + 1])

Forget(lu, ks) == Rank([k \in CacheKeys |-> IF k \in ks THEN 0 ELSE lu[k]])

(***************************************************************************)
(* pruneCacheEntry and pruneCache.  A store is this.cache and this.keys    *)
(* with the $destroy() calls issued on the way: [cache, keys, calls].      *)
(***************************************************************************)
\* a !== b on two tags (strings or undefined).
StrictNotEqual(a, b) ==
  \/ a.kind # b.kind
  \/ a.kind = "String" /\ a.chars # b.chars

\* A guard that calls $destroy() whatever the current vnode is.
ShouldDestroyAlways(entry, current) == Truthy(entry)

\* entry && (!current || entry.tag !== current.tag)
ShouldDestroy(entry, current) ==
  Truthy(entry) /\ (~Truthy(current) \/ StrictNotEqual(entry.tag, current.tag))

pruneCacheEntry(st, key, current) ==
  LET entry == st.cache[key]
  IN [cache |-> [st.cache EXCEPT ![key] = Null],
      keys |-> remove(st.keys, key),
      calls |-> IF ShouldDestroy(entry, current)
                THEN Append(st.calls, entry.componentInstance)
                ELSE st.calls]

\* The filters the two watchers hand to pruneCache.
Filter(prop, val, name) ==
  IF prop = "include" THEN matches(val, name) ELSE ~matches(val, name)

\* A prune pass that takes the entries the filter accepts.
FailsFilterInverted(prop, val, entry) ==
  Truthy(entry.name) /\ Filter(prop, val, entry.name.chars)

\* name && !filter(name)
FailsFilter(prop, val, entry) ==
  Truthy(entry.name) /\ ~Filter(prop, val, entry.name.chars)

RECURSIVE PruneLoop(_, _, _, _, _)
\* The loop of pruneCache over the keys still to visit.  An iteration reads
\* and writes its own key only, so the order of the visits is immaterial.
PruneLoop(st, todo, prop, val, current) ==
  IF todo = {} THEN st
  ELSE LET key == CHOOSE k \in todo : TRUE
           entry == st.cache[key]
           next == IF Truthy(entry) /\ FailsFilter(prop, val, entry)
                   THEN pruneCacheEntry(st, key, current)
                   ELSE st
       IN PruneLoop(next, todo \ {key}, prop, val, current)

\* for (const key in cache): the keys that were ever set.
OwnKeys(c) == { k \in CacheKeys : c[k].kind # "Undefined" }

pruneCache(st, prop, val, current) ==
  PruneLoop(st, OwnKeys(st.cache), prop, val, current)

RECURSIVE DestroyLoopSparingCurrent(_, _)
\* A teardown that hands the current vnode to pruneCacheEntry.
DestroyLoopSparingCurrent(st, todo) ==
  IF todo = {} THEN st
  ELSE LET key == CHOOSE k \in todo : TRUE
       IN DestroyLoopSparingCurrent(pruneCacheEntry(st, key, _vnode),
                                    todo \ {key})

RECURSIVE DestroyLoop(_, _)
\* The loop of destroyed: pruneCacheEntry without a current vnode.
DestroyLoop(st, todo) ==
  IF todo = {} THEN st
  ELSE LET key == CHOOSE k \in todo : TRUE
       IN DestroyLoop(pruneCacheEntry(st, key, Undefined), todo \ {key})

\* A capacity check that counts the keys before the insertion.
OverCapacityBeforeInsertion(len, m) ==
  Truthy(m) /\ GreaterThan(len - 1, parseInt(m))

\* A capacity check with >= for >.
OverCapacityAtLimit(len, m) ==
  Truthy(m) /\ GreaterThan(len + 1, parseInt(m))

\* this.max && keys.length > parseInt(this.max)
OverCapacity(len, m) == Truthy(m) /\ GreaterThan(len, parseInt(m))

\* An admit that puts the key at the front of keys, as the oldest.
AdmitAtFront(st, vnode, key, m, current) ==
  LET entry == [kind |-> "Entry",
                name |-> getComponentName(vnode.componentOptions),
                tag |-> vnode.tag,
                componentInstance |-> vnode.componentInstance]
      st1 == [st EXCEPT !.cache = [st.cache EXCEPT ![key] = entry],
                        !.keys = <<key>> \o st.keys]
  IN IF OverCapacity(Len(st1.keys), m)
     THEN pruneCacheEntry(st1, st1.keys[1], current)
     ELSE st1

\* The body of cacheVNode when there is a vnode to cache.
Admit(st, vnode, key, m, current) ==
  LET entry == [kind |-> "Entry",
                name |-> getComponentName(vnode.componentOptions),
                tag |-> vnode.tag,
                componentInstance |-> vnode.componentInstance]
      st1 == [st EXCEPT !.cache = [st.cache EXCEPT ![key] = entry],
                        !.keys = Append(st.keys, key)]
  IN IF OverCapacity(Len(st1.keys), m)
     THEN pruneCacheEntry(st1, st1.keys[1], current)
     ELSE st1

\* The $destroy() calls of a step, counted per instance.
Destroyed(calls) ==
  [i \in 1..MaxInstances |->
     destroyCount[i] + Cardinality({ n \in 1..Len(calls) : calls[n].uid = i })]

\* The keys a step took out of the store.
Removed(before, after) ==
  { j \in CacheKeys : Truthy(before[j]) /\ ~Truthy(after[j]) }

(***************************************************************************)
(* The component: created, render, mounted, updated, the two watchers,     *)
(* destroyed                                                               *)
(***************************************************************************)
Init ==
  /\ cache = [k \in CacheKeys |-> Undefined]
  /\ keys = <<>>
  /\ vnodeToCache = Undefined
  /\ keyToCache = Undefined
  /\ _vnode = Undefined
  /\ include \in IncludeValues
  /\ exclude \in ExcludeValues
  /\ max \in MaxValues
  /\ phase = "created"
  /\ nextInstance = 1
  /\ destroyCount = [i \in 1..MaxInstances |-> 0]
  /\ lastUse = [k \in CacheKeys |-> 0]
  /\ lastOp = NoOp
  /\ pin = Undefined
  /\ pout = Undefined

\* The instance the host creates for a child that got none from the cache.
HostInstance(vnode) == [vnode EXCEPT !.componentInstance = Instance(nextInstance)]

\* A filter test that lets a nameless component past include.
NotCacheableNamelessPasses(name) ==
  \/ Truthy(include) /\ Truthy(name) /\ ~matches(include, name.chars)
  \/ Truthy(exclude) /\ Truthy(name) /\ matches(exclude, name.chars)

\* (include && (!name || !matches(include, name))) ||
\* (exclude && name && matches(exclude, name))
NotCacheable(name) ==
  \/ Truthy(include) /\ (~Truthy(name) \/ ~matches(include, name.chars))
  \/ Truthy(exclude) /\ Truthy(name) /\ matches(exclude, name.chars)

\* A hit that leaves the key where it is.
MakeFreshestForgotten(ks, key) == ks

\* A hit that pushes the key without removing it first.
MakeFreshestPushOnly(ks, key) == Append(ks, key)

\* A hit that makes the key the freshest and turns the other keys round.
MakeFreshestTurningRest(ks, key) ==
  LET rest == remove(ks, key)
  IN Append([i \in 1..Len(rest) |-> rest[Len(rest) + 1 - i]], key)

\* remove(keys, key); keys.push(key): make the key the freshest.
MakeFreshest(ks, key) == Append(remove(ks, key), key)

\* render finds the key in the cache.
RenderHit(child, key) ==
  LET instance == cache[key].componentInstance
  IN /\ _vnode' = [child EXCEPT !.componentInstance = instance,
                                !.keepAlive = TRUE]
     /\ keys' = MakeFreshest(keys, key)
     /\ lastUse' = Touch(lastUse, key)
     /\ lastOp' = [op |-> "hit", key |-> key, inst |-> instance, removed |-> {},
                   afterAdmit |-> IF lastOp.op = "admit" /\ lastOp.key = key
                                  THEN lastOp.inst ELSE Undefined]
     /\ UNCHANGED <<cache, vnodeToCache, keyToCache, nextInstance>>

\* render does not find the key: the vnode waits for mounted or updated.
RenderMiss(child, key) ==
  LET vnode == [HostInstance(child) EXCEPT !.keepAlive = TRUE]
  IN /\ nextInstance <= MaxInstances
     /\ vnodeToCache' = vnode
     /\ keyToCache' = Str(key)
     /\ _vnode' = vnode
     /\ nextInstance' = nextInstance + 1
     /\ lastOp' = [op |-> "miss", key |-> key, inst |-> vnode.componentInstance,
                   removed |-> {},
                   afterAdmit |-> IF lastOp.op = "admit" /\ lastOp.key = key
                                  THEN lastOp.inst ELSE Undefined]
     /\ UNCHANGED <<cache, keys, lastUse>>

\* render returns a component the filters keep out of the cache.  The
\* instance the host gives it never reaches the cache: uid 0 stands for it.
RenderFiltered(child) ==
  /\ _vnode' = [child EXCEPT !.componentInstance = Instance(0)]
  /\ lastOp' = NoOp
  /\ UNCHANGED <<cache, keys, vnodeToCache, keyToCache, nextInstance, lastUse>>

\* render returns a child that is no component.
RenderElement(child) ==
  /\ _vnode' = child
  /\ lastOp' = NoOp
  /\ UNCHANGED <<cache, keys, vnodeToCache, keyToCache, nextInstance, lastUse>>

Render(child) ==
  /\ phase # "destroyed"
  /\ IF Truthy(child.componentOptions)
     THEN IF NotCacheable(getComponentName(child.componentOptions))
          THEN RenderFiltered(child)
          ELSE IF Truthy(cache[getCacheKey(child)])
               THEN RenderHit(child, getCacheKey(child))
               ELSE RenderMiss(child, getCacheKey(child))
     ELSE RenderElement(child)
  /\ UNCHANGED <<include, exclude, max, phase, destroyCount, pureVars>>

cacheVNode ==
  IF Truthy(vnodeToCache)
  THEN LET st == Admit([cache |-> cache, keys |-> keys, calls |-> <<>>],
                       vnodeToCache, keyToCache.chars, max, _vnode)
       IN /\ cache' = st.cache
          /\ keys' = st.keys
          /\ destroyCount' = Destroyed(st.calls)
          /\ vnodeToCache' = Null
          /\ lastUse' = Forget(Touch(lastUse, keyToCache.chars),
                               { k \in CacheKeys : ~Truthy(st.cache[k]) })
          /\ lastOp' = [op |-> "admit", key |-> keyToCache.chars,
                        inst |-> vnodeToCache.componentInstance,
                        removed |-> Removed(cache, st.cache),
                        afterAdmit |-> Undefined]
  ELSE /\ lastOp' = NoOp
       /\ UNCHANGED <<cache, keys, destroyCount, vnodeToCache, lastUse>>

\* mounted: cacheVNode, and the watchers of include and exclude start.
Mounted ==
  /\ phase = "created"
  /\ _vnode # Undefined
  /\ cacheVNode
  /\ phase' = "mounted"
  /\ UNCHANGED <<keyToCache, _vnode, include, exclude, max, nextInstance, pureVars>>

Updated ==
  /\ phase = "mounted"
  /\ cacheVNode
  /\ UNCHANGED <<keyToCache, _vnode, include, exclude, max, phase, nextInstance,
                 pureVars>>

\* What a watcher does when its prop is replaced by val.
Watch(prop, val) ==
  LET st == pruneCache([cache |-> cache, keys |-> keys, calls |-> <<>>],
                       prop, val, _vnode)
  IN /\ cache' = st.cache
     /\ keys' = st.keys
     /\ destroyCount' = Destroyed(st.calls)
     /\ lastUse' = Forget(lastUse, { k \in CacheKeys : ~Truthy(st.cache[k]) })
     /\ lastOp' = IF Removed(cache, st.cache) = {} THEN NoOp
                  ELSE [NoOp EXCEPT !.op = prop,
                                    !.removed = Removed(cache, st.cache)]

SetInclude(val) ==
  /\ phase = "mounted"
  /\ val # include
  /\ include' = val
  /\ Watch("include", val)
  /\ UNCHANGED <<vnodeToCache, keyToCache, _vnode, exclude, max, phase,
                 nextInstance, pureVars>>

SetExclude(val) ==
  /\ phase = "mounted"
  /\ val # exclude
  /\ exclude' = val
  /\ Watch("exclude", val)
  /\ UNCHANGED <<vnodeToCache, keyToCache, _vnode, include, max, phase,
                 nextInstance, pureVars>>

\* The destroyed hook.
DestroyedHook ==
  /\ phase # "destroyed"
  /\ LET st == DestroyLoop([cache |-> cache, keys |-> keys, calls |-> <<>>],
                           OwnKeys(cache))
     IN /\ cache' = st.cache
        /\ keys' = st.keys
        /\ destroyCount' = Destroyed(st.calls)
        /\ lastUse' = Forget(lastUse, { k \in CacheKeys : ~Truthy(st.cache[k]) })
        /\ lastOp' = IF Removed(cache, st.cache) = {} THEN NoOp
                     ELSE [NoOp EXCEPT !.op = "destroyed",
                                       !.removed = Removed(cache, st.cache)]
  /\ phase' = "destroyed"
  /\ UNCHANGED <<vnodeToCache, keyToCache, _vnode, include, exclude, max,
                 nextInstance, pureVars>>

Next ==
  \/ \E child \in Children : Render(child)
  \/ Mounted
  \/ Updated
  \/ \E val \in IncludeValues : SetInclude(val)
  \/ \E val \in ExcludeValues : SetExclude(val)
  \/ DestroyedHook

Spec == Init /\ [][Next]_vars

(***************************************************************************)
(* The component under a parent that lowers max.  max is a prop: the       *)
(* parent may replace it at any time, no watcher runs, and cacheVNode      *)
(* reads this.max when it next admits.                                     *)
(***************************************************************************)
\* The parent replaces max by a smaller positive integer.
LowerMax(val) ==
  /\ phase # "destroyed"
  /\ Truthy(max) /\ parseInt(max).kind = "Number"
  /\ Truthy(val) /\ parseInt(val).kind = "Number"
  /\ parseInt(val).value >= 1
  /\ parseInt(val).value < parseInt(max).value
  /\ max' = val
  /\ lastOp' = NoOp
  /\ UNCHANGED <<cache, keys, vnodeToCache, keyToCache, _vnode, include,
                 exclude, phase, nextInstance, destroyCount, lastUse, pureVars>>

NextMax ==
  \/ Next
  \/ \E val \in MaxValues : LowerMax(val)

SpecMax == Init /\ [][NextMax]_vars

(***************************************************************************)
(* The pure functions on their own: the arguments are drawn by the initial *)
(* state, one step applies the function.                                   *)
(***************************************************************************)
StoreIdle ==
  /\ cache = [k \in CacheKeys |-> Undefined]
  /\ keys = <<>>
  /\ vnodeToCache = Undefined
  /\ keyToCache = Undefined
  /\ _vnode = Undefined
  /\ include = Undefined
  /\ exclude = Undefined
  /\ max = Undefined
  /\ phase = "created"
  /\ nextInstance = 1
  /\ destroyCount = [i \in 1..MaxInstances |-> 0]
  /\ lastUse = [k \in CacheKeys |-> 0]
  /\ lastOp = NoOp

storeVars == <<cache, keys, vnodeToCache, keyToCache, _vnode, include, exclude,
               max, phase, nextInstance, destroyCount, lastUse, lastOp>>

\* The vnodes render may have to find a key for.
KeyedVNodes ==
  { ComponentVNode(cid, Undefined, tag, key) :
      cid \in {1, 2, 12},
      tag \in { Undefined, Str(<<"a">>), Str(<<"b">>), Str(<<"2">>) },
      key \in { Undefined, Null, Str(<<"k">>), Str(<<"1", ":", ":", "a">>) } }

InitKey ==
  /\ StoreIdle
  /\ pin \in KeyedVNodes \X KeyedVNodes
  /\ pout = Undefined

ResolveKeys ==
  /\ pout = Undefined
  /\ pout' = <<getCacheKey(pin[1]), getCacheKey(pin[2])>>
  /\ UNCHANGED <<pin, storeVars>>

SpecKey == InitKey /\ [][ResolveKeys]_vars

\* The patterns matches may be handed: the three kinds the props accept,
\* and the other shapes.
Patterns ==
  { Arr(<<<<"a">>, <<"b">>>>), Arr(<<>>), Arr(<<<<"a", ",", "b">>>>),
    Str(<<"a", ",", "b">>), Str(<<"a", "b", ",", "c">>), Str(<<"a">>),
    Str(<<>>), Str(<<",", "a", ",">>),
    RegExp(TRUE, <<"x">>), RegExp(FALSE, <<"y">>), RegExp(FALSE, <<>>),
    Undefined, Null, Num(7), [kind |-> "Object"] }

Names ==
  { <<"a">>, <<"b">>, <<"c">>, <<"a", "b">>, <<"a", ",", "b">>, <<>>,
    <<"x", "y", "z">>, <<"y", "z">>, <<"z">> }

InitMatches ==
  /\ StoreIdle
  /\ pin \in [pattern : Patterns, name : Names]
  /\ pout = Undefined

ApplyMatches ==
  /\ pout = Undefined
  /\ pout' = [result |-> matches(pin.pattern, pin.name)]
  /\ UNCHANGED <<pin, storeVars>>

SpecMatches == InitMatches /\ [][ApplyMatches]_vars

(***************************************************************************)
(* Properties                                                              *)
(***************************************************************************)
\* A step of mounted or updated that admits the pending vnode.
AdmitStep == Truthy(vnodeToCache) /\ (Mounted \/ Updated)

\* A step of one of the two watchers.
WatchStep ==
  \/ \E val \in IncludeValues : SetInclude(val)
  \/ \E val \in ExcludeValues : SetExclude(val)

\* max is a positive integer (a number, or a string parseInt reads as one).
PositiveMax ==
  Truthy(max) /\ parseInt(max).kind = "Number" /\ parseInt(max).value >= 1

Limit == parseInt(max).value

IsRendered(instance) ==
  _vnode.kind = "VNode" /\ _vnode.componentInstance = instance

\* The $destroy() calls a step issues on instance i.
Calls(i) == destroyCount'[i] - destroyCount[i]

\* C1: with max a positive integer, after every admit of cacheVNode the
\* store holds at most max entries; an admit that brings the count to
\* max + 1 evicts exactly one entry and leaves exactly max.
C1_CapacityAfterAdmit ==
  [][(AdmitStep /\ PositiveMax) =>
       /\ Cardinality(LiveKeys') <= Limit
       /\ Cardinality(LiveKeys \cup {keyToCache.chars}) = Limit + 1 =>
            /\ Cardinality(LiveKeys') = Limit
            /\ Cardinality((LiveKeys \cup {keyToCache.chars}) \ LiveKeys') = 1]_vars

C1_Witness ==
  /\ PositiveMax
  /\ lastOp.op = "admit"
  /\ Cardinality(lastOp.removed) = 1
  /\ Cardinality(LiveKeys) = Limit

\* C2: the key an admit evicts is the key in the store whose last admit or
\* hit is the oldest.
C2_EvictsLeastRecentlyUsed ==
  [][(AdmitStep /\ PositiveMax) =>
       \A victim \in (LiveKeys \cup {keyToCache.chars}) \ LiveKeys' :
         /\ victim \in LiveKeys
         /\ \A k \in LiveKeys \ {victim} : lastUse[victim] < lastUse[k]]_vars

\* An eviction took the second instance and left the first, older one: a
\* hit had made the first the fresher of the two.
C2_Witness ==
  /\ lastOp.op = "admit"
  /\ lastOp.removed # {}
  /\ Cardinality(LiveKeys) = 2
  /\ destroyCount[2] = 1
  /\ \E k \in LiveKeys : cache[k].componentInstance = Instance(1)

\* C3: neither the eviction of cacheVNode nor the prune pass of a watcher
\* calls $destroy() on the instance of the current _vnode.
C3_RenderedInstanceNotDestroyed ==
  [][(AdmitStep \/ WatchStep) =>
       \A i \in 1..MaxInstances : Calls(i) > 0 => ~IsRendered(Instance(i))]_vars

\* C4: the destroyed hook leaves no entry and no key, and calls
\* $destroy() exactly once for each entry the store held, the entry of the
\* rendered instance included.
C4_TeardownComplete ==
  [][DestroyedHook =>
       /\ \A k \in CacheKeys : ~Truthy(cache'[k])
       /\ keys' = <<>>
       /\ \A i \in 1..MaxInstances :
            Calls(i) = Cardinality({ k \in LiveKeys :
                                       cache[k].componentInstance = Instance(i) })]_vars

\* Teardown took two entries or more, that of the rendered instance included.
C4_Witness ==
  /\ phase = "destroyed"
  /\ lastOp.op = "destroyed"
  /\ Cardinality(lastOp.removed) >= 2
  /\ _vnode.kind = "VNode"
  /\ _vnode.keepAlive
  /\ getCacheKey(_vnode) \in lastOp.removed
  /\ destroyCount[_vnode.componentInstance.uid] = 1

\* The keys of ks that are not in gone, in the order of ks.
Without(ks, gone) == SelectSeq(ks, LAMBDA k : k \notin gone)

\* What a prune pass that takes the keys in gone must leave.
PrunesExactly(gone) ==
  /\ LiveKeys' = LiveKeys \ gone
  /\ \A k \in LiveKeys' : cache'[k] = cache[k]
  /\ keys' = Without(keys, gone)

\* C5: replacing include by a pattern removes from the store and from the
\* keys exactly the entries that have a name the pattern does not match;
\* replacing exclude by a pattern removes exactly the entries that have a
\* name the pattern matches.  Every other entry (an entry without a name is
\* one) and the order of the keys that stay are unchanged.
C5_PruneByName ==
  [][/\ \A val \in IncludeValues :
          (SetInclude(val) /\ val.kind \in {"Array", "String", "RegExp"}) =>
            PrunesExactly({ k \in LiveKeys :
                              /\ Truthy(cache[k].name)
                              /\ ~matches(val, cache[k].name.chars) })
     /\ \A val \in ExcludeValues :
          (SetExclude(val) /\ val.kind \in {"Array", "String", "RegExp"}) =>
            PrunesExactly({ k \in LiveKeys :
                              /\ Truthy(cache[k].name)
                              /\ matches(val, cache[k].name.chars) })]_vars

\* include = ['A', 'C'] has just pruned B, and only B, from A, B and C.
C5_Witness ==
  /\ lastOp.op = "include"
  /\ include = Arr(<<<<"A">>, <<"C">>>>)
  /\ Cardinality(lastOp.removed) = 1
  /\ { cache[k].name : k \in LiveKeys } = { Str(<<"A">>), Str(<<"C">>) }

\* C6: with max unset or a positive integer, the render pass that follows
\* the admit of key K at once and resolves to K is a hit, and its vnode
\* carries the instance that was admitted.
C6_AdmitThenHit ==
  (/\ ~Truthy(max) \/ PositiveMax
   /\ lastOp.op \in {"hit", "miss"}
   /\ lastOp.afterAdmit # Undefined)
    => /\ lastOp.op = "hit"
       /\ _vnode.componentInstance = lastOp.afterAdmit

\* The hit follows an admit that had to evict.
C6_Witness ==
  /\ lastOp.op = "hit"
  /\ lastOp.afterAdmit # Undefined
  /\ _vnode.componentInstance = lastOp.afterAdmit
  /\ PositiveMax
  /\ Len(keys) = Limit
  /\ \E i \in 1..MaxInstances : destroyCount[i] = 1

\* The key the source's comment describes for a vnode.
ExpectedKey(vnode) ==
  IF vnode.key.kind = "String" THEN vnode.key.chars
  ELSE IF vnode.componentOptions.tag.kind = "String"
       THEN NumberToString(vnode.componentOptions.Ctor.cid) \o <<":", ":">>
              \o vnode.componentOptions.tag.chars
       ELSE NumberToString(vnode.componentOptions.Ctor.cid)

\* C7: the key is the explicit key when there is one, otherwise the
\* constructor id, followed by "::" and the tag when there is a tag; two
\* vnodes without explicit keys, with the same constructor id and different
\* tags, get different keys; the same vnode gets the same key.
C7_KeyDerivation ==
  pout # Undefined =>
    /\ \A n \in 1..2 : pout[n] = ExpectedKey(pin[n])
    /\ (/\ pin[1].key.kind # "String"
        /\ pin[2].key.kind # "String"
        /\ pin[1].componentOptions.Ctor.cid = pin[2].componentOptions.Ctor.cid
        /\ pin[1].componentOptions.tag # pin[2].componentOptions.tag)
         => pout[1] # pout[2]
    /\ pin[1] = pin[2] => pout[1] = pout[2]

\* Two keyless vnodes of constructor 12, tagged a and b, were given keys.
C7_Witness ==
  /\ pout # Undefined
  /\ pin[1].key = Undefined
  /\ pin[2].key = Undefined
  /\ pin[1].componentOptions.Ctor.cid = 12
  /\ pin[2].componentOptions.Ctor.cid = 12
  /\ pin[1].componentOptions.tag = Str(<<"a">>)
  /\ pin[2].componentOptions.tag = Str(<<"b">>)
  /\ pout[1] = <<"1", "2", ":", ":", "a">>

\* s[from..to] is one of the parts of s between commas.
IsPart(s, from, to) ==
  /\ \A i \in from..to : s[i] # ","
  /\ from = 1 \/ s[from - 1] = ","
  /\ to = Len(s) \/ s[to + 1] = ","

C9_KeysAreLiveKeys ==
  /\ \A i \in 1..Len(keys) : keys[i] \in LiveKeys
  /\ \A k \in LiveKeys : \E i \in 1..Len(keys) : keys[i] = k
  /\ \A i, j \in 1..Len(keys) : keys[i] = keys[j] => i = j

\* A hit came while a miss was still waiting for its signal.
C9_Witness ==
  /\ lastOp.op = "hit"
  /\ Truthy(vnodeToCache)
  /\ Len(keys) >= 2
  /\ keys[Len(keys)] = lastOp.key

\* C10: an eviction or a prune pass that removes an entry whose instance is
\* not the rendered one calls $destroy() on that instance.
C10_RemovedInstanceDestroyed ==
  [][(AdmitStep \/ WatchStep) =>
       \A k \in LiveKeys \ LiveKeys' :
         ~IsRendered(cache[k].componentInstance)
           => Calls(cache[k].componentInstance.uid) = 1]_vars

\* The entry of instance i is in the store before the step and not after.
Leaves(i) ==
  \E k \in LiveKeys :
    /\ cache[k].componentInstance = Instance(i)
    /\ ~(Truthy(cache'[k]) /\ cache'[k].componentInstance = Instance(i))

\* The entry of instance i has the tag of the current _vnode, in a step
\* other than the destroyed hook.
Spared(i) ==
  /\ phase' # "destroyed"
  /\ Truthy(_vnode)
  /\ \E k \in LiveKeys :
       /\ cache[k].componentInstance = Instance(i)
       /\ ~StrictNotEqual(cache[k].tag, _vnode.tag)

NamePresent(child) == Truthy(getComponentName(child.componentOptions))

NameOf(child) == getComponentName(child.componentOptions).chars

\* include is set and the name is absent or fails it, or exclude is set and
\* the name matches it.
FilteredOut(child) ==
  \/ include # Undefined /\ (~NamePresent(child) \/ ~matches(include, NameOf(child)))
  \/ exclude # Undefined /\ NamePresent(child) /\ matches(exclude, NameOf(child))

\* C12: a render pass on a component the filters keep out returns it as it
\* came, with no instance from the cache and keepAlive not set, and leaves
\* cache, keys, vnodeToCache and keyToCache as they were; a render pass on
\* any other component, hit or miss, returns it with keepAlive set.
C12_FilteredRenderLeavesStore ==
  [][\A child \in ComponentChildren :
       Render(child) =>
         IF FilteredOut(child)
         THEN /\ UNCHANGED <<cache, keys, vnodeToCache, keyToCache>>
              /\ _vnode'.keepAlive = FALSE
              /\ _vnode'.componentInstance \notin
                   { cache[k].componentInstance : k \in LiveKeys }
              /\ [_vnode' EXCEPT !.componentInstance = Undefined] = child
         ELSE /\ _vnode'.keepAlive = TRUE
              /\ [_vnode' EXCEPT !.componentInstance = Undefined,
                                 !.keepAlive = FALSE] = child]_vars

\* A filtered component is the rendered one while the store holds an entry
\* and a vnode waits to be cached.
C12_Witness ==
  /\ Truthy(_vnode)
  /\ Truthy(_vnode.componentOptions)
  /\ FilteredOut(_vnode)
  /\ _vnode.keepAlive = FALSE
  /\ LiveKeys # {}
  /\ Truthy(vnodeToCache)

\* A render pass on child that misses: the filters let it through and the
\* cache has nothing under its key.
MissOn(child) ==
  /\ ~FilteredOut(child)
  /\ ~Truthy(cache[getCacheKey(child)])
  /\ Render(child)

Signal == Mounted \/ Updated

\* C13: a render pass that misses on key K leaves cache and keys as they
\* were and only sets the pending pair (vnodeToCache, keyToCache) to the
\* rendered vnode and K; no step but a miss or a mounted/updated signal
\* changes the pending pair; a key enters the store only in a signal, and it
\* is the pending key with the pending vnode's instance; a signal with a
\* pending vnode puts that pair into the store with its key last in keys
\* and sets vnodeToCache to null; a signal with no pending vnode changes
\* neither the store nor the pending pair and calls no $destroy().
C13_TwoPhaseAdmission ==
  [][/\ \A child \in ComponentChildren :
          MissOn(child) =>
            /\ UNCHANGED <<cache, keys, destroyCount>>
            /\ keyToCache' = Str(getCacheKey(child))
            /\ vnodeToCache' = _vnode'
            /\ [vnodeToCache' EXCEPT !.componentInstance = Undefined,
                                     !.keepAlive = FALSE] = child
     /\ \/ UNCHANGED <<vnodeToCache, keyToCache>>
        \/ Signal
        \/ \E child \in ComponentChildren : MissOn(child)
     /\ \A k \in LiveKeys' \ LiveKeys :
          /\ Truthy(vnodeToCache)
          /\ k = keyToCache.chars
          /\ Signal
     /\ (Truthy(vnodeToCache) /\ Signal) =>
          /\ Truthy(cache'[keyToCache.chars])
          /\ cache'[keyToCache.chars].componentInstance
               = vnodeToCache.componentInstance
          /\ keys'[Len(keys')] = keyToCache.chars
          /\ \A i, j \in 1..Len(keys') : keys'[i] = keys'[j] => i = j
          /\ vnodeToCache' = Null
     /\ (~Truthy(vnodeToCache) /\ Signal) =>
          UNCHANGED <<cache, keys, vnodeToCache, keyToCache,
                      destroyCount>>]_vars

\* A signal has admitted the third pending pair: its key is the last of
\* three keys and nothing is pending.
C13_Witness ==
  /\ lastOp.op = "admit"
  /\ vnodeToCache = Null
  /\ Len(keys) = 3
  /\ keys[3] = lastOp.key
  /\ cache[lastOp.key].componentInstance = lastOp.inst

\* A render pass on child that hits: the filters let it through and the
\* cache has an entry under its key.
HitOn(child) ==
  /\ ~FilteredOut(child)
  /\ Truthy(cache[getCacheKey(child)])
  /\ Render(child)

\* C14: a render pass that hits on key K leaves cache as it was, calls no
\* $destroy(), leaves vnodeToCache and keyToCache as they were, and changes
\* keys only by moving K to the end: the other keys keep their order.
C14_HitOnlyRefreshesKey ==
  [][\A child \in ComponentChildren :
       HitOn(child) =>
         /\ UNCHANGED <<cache, destroyCount, vnodeToCache, keyToCache>>
         /\ Len(keys') = Len(keys)
         /\ keys'[Len(keys')] = getCacheKey(child)
         /\ Without(keys', {getCacheKey(child)})
              = Without(keys, {getCacheKey(child)})]_vars

\* A hit on the oldest of three keys: the key is now the last, and the two
\* others are the ones admitted second and third, in that order.
C14_Witness ==
  /\ lastOp.op = "hit"
  /\ Len(keys) = 3
  /\ keys[3] = lastOp.key
  /\ lastOp.inst = Instance(1)
  /\ cache[keys[1]].componentInstance = Instance(2)
  /\ cache[keys[2]].componentInstance = Instance(3)

\* Whether render, under the filters inc and exc, would cache a component
\* of this name (Undefined: the component has no name).
Cacheable(name, inc, exc) ==
  /\ ~(inc # Undefined /\ (~Truthy(name) \/ ~matches(inc, name.chars)))
  /\ ~(exc # Undefined /\ Truthy(name) /\ matches(exc, name.chars))

\* C15: right after the prune pass that a replacement of include or exclude
\* triggers, every entry in the store is one render would cache under the
\* new filters; so no entry without a name is left once include is set.
C15_StoreConsistentWithFilters ==
  [][WatchStep =>
       \A k \in LiveKeys' : Cacheable(cache'[k].name, include', exclude')]_vars

\* C16: the prune pass triggered by replacing include with undefined removes
\* no entry and calls no $destroy(); nor does the one triggered by replacing
\* exclude with undefined.
C16_ClearingFilterPrunesNothing ==
  [][(SetInclude(Undefined) \/ SetExclude(Undefined)) =>
       /\ LiveKeys' = LiveKeys
       /\ UNCHANGED <<cache, keys, destroyCount>>]_vars

\* C17: after the parent has replaced max by a smaller positive integer, the
\* next admit leaves at most that many entries in the store, however far
\* above the new max the store was.  (Stated for every admit under SpecMax,
\* where max changes only by being lowered: with max fixed this is C1.)
C17_CapacityAfterLoweredMax ==
  [][(AdmitStep /\ PositiveMax) => Cardinality(LiveKeys') <= Limit]_vars

\* C18: on every hit, the instance the candidate gets was admitted with a
\* vnode of the candidate's own component: the entry's tag, which is the tag
\* of that vnode and carries the constructor's cid and the component's name,
\* is the candidate's, and so is the entry's name; also when two components
\* are rendered with the same explicit key.
C18_HitGivesOwnComponent ==
  [][\A child \in ComponentChildren :
       HitOn(child) =>
         /\ cache[getCacheKey(child)].tag = child.tag
         /\ cache[getCacheKey(child)].name
              = getComponentName(child.componentOptions)]_vars

====
